---------------------------- MODULE Spec2Model ----------------------------
(***************************************************************************)
(* Package nnz: nullable wrappers Bool, Int, Int64, Float64, String and    *)
(* Time whose zero value stands for SQL/JSON null.                         *)
(*                                                                         *)
(* One wrapper instance is modelled: `kind' is its Go type, `val' its      *)
(* value.  Every method of the package is one action.  The library calls   *)
(* (encoding/json, time.Parse, time.Time's binary codec) are modelled by   *)
(* what they compute on byte sequences, with integer and float widths      *)
(* scaled down: int64 is IntBits wide and float64 has FloatMantBits        *)
(* mantissa bits, in units of one half.  Int is taken as wide as int64 (a  *)
(* 64-bit port); `arch' is the port, which decides what a float64 outside  *)
(* the integer range converts to.  Timestamps are whole seconds, in UTC    *)
(* or at a fixed whole-minute offset.                                      *)
(***************************************************************************)
EXTENDS Integers, Sequences, FiniteSets, TLC

VARIABLES kind, val, arch, last, stored

vars == <<kind, val, arch, last, stored>>

(***************************************************************************)
(* Bounds: the scaled widths.                                              *)
(***************************************************************************)
\* width of int64 (and of int on a 64-bit port), scaled from 64
IntBits == 6
\* mantissa bits of float64, scaled from 53
FloatMantBits == 4
\* largest binary exponent of a float64 mantissa, in halves, scaled from 1023
FloatMaxExp == 4

RECURSIVE Pow2(_)
Pow2(k) == IF k = 0 THEN 1 ELSE 2 * Pow2(k - 1)

MaxInt64 == Pow2(IntBits - 1) - 1
MinInt64 == 0 - Pow2(IntBits - 1)
\* the largest finite float64, counted in halves
MaxFloat64 == (Pow2(FloatMantBits) - 1) * Pow2(FloatMaxExp)

Abs(n) == IF n < 0 THEN 0 - n ELSE n

(***************************************************************************)
(* Bytes are one-character strings; text is a sequence of them.            *)
(***************************************************************************)
Digits == <<"0", "1", "2", "3", "4", "5", "6", "7", "8", "9">>
IsDigit(c) == \E d \in 1..10 : Digits[d] = c
DigitVal(c) == (CHOOSE d \in 1..10 : Digits[d] = c) - 1
AllDigits(s) == \A k \in 1..Len(s) : IsDigit(s[k])

RECURSIVE NatText(_)
NatText(n) == IF n < 10 THEN <<Digits[n + 1]>>
              ELSE NatText(n \div 10) \o <<Digits[(n % 10) + 1]>>

RECURSIVE NatVal(_)
NatVal(s) == IF s = <<>> THEN 0
             ELSE 10 * NatVal(SubSeq(s, 1, Len(s) - 1)) + DigitVal(s[Len(s)])

\* strconv's decimal form of an integer
IntText(n) == IF n < 0 THEN <<"-">> \o NatText(0 - n) ELSE NatText(n)

\* n as exactly w decimal digits
Pad(n, w) == LET t == NatText(n)
             IN  [k \in 1..(w - Len(t)) |-> "0"] \o t

IndexOf(s, c) == IF \E k \in 1..Len(s) : s[k] = c
                 THEN CHOOSE k \in 1..Len(s) : s[k] = c /\ \A j \in 1..(k - 1) : s[j] # c
                 ELSE 0

(***************************************************************************)
(* Errors.  A type mismatch carries the two types fmt prints with %T.      *)
(***************************************************************************)
Nil == [k |-> "nil", want |-> "", got |-> ""]
ErrorOf(k) == [k |-> k, want |-> "", got |-> ""]
Errorf(verb, want, got) == [k |-> verb, want |-> want, got |-> got]

(***************************************************************************)
(* float64: a finite value is a count of halves with at most              *)
(* FloatMantBits significant bits; NaN and the infinities are apart.       *)
(***************************************************************************)
Fin(h) == [c |-> "fin", h |-> h]
NaN == [c |-> "nan", h |-> 0]
PosInf == [c |-> "inf", h |-> 1]
NegInf == [c |-> "inf", h |-> 0 - 1]

RECURSIVE Shift(_)
Shift(n) == IF n < Pow2(FloatMantBits) THEN 0 ELSE 1 + Shift(n \div 2)

\* round to nearest, ties to even mantissa (n >= 0, in halves)
RoundNat(n) ==
    LET u  == Pow2(Shift(n))
        m  == n \div u
        r  == n - m * u
    IN  IF 2 * r < u THEN m * u
        ELSE IF 2 * r > u THEN (m + 1) * u
        ELSE IF m % 2 = 0 THEN m * u ELSE (m + 1) * u

RoundHalves(n) == IF n < 0 THEN 0 - RoundNat(0 - n) ELSE RoundNat(n)

Representable(h) == RoundHalves(h) = h /\ Abs(h) <= MaxFloat64

\* the halves of the decimal fraction 0.d, to the nearest half
FracHalves(d) == IF d >= 8 THEN 2 ELSE IF d >= 3 THEN 1 ELSE 0

\* strconv.ParseFloat(s, 64) on a JSON number
ParseFloat(s) ==
    LET neg  == s[1] = "-"
        t    == IF neg THEN Tail(s) ELSE s
        dot  == IndexOf(t, ".")
        ip   == IF dot = 0 THEN t ELSE SubSeq(t, 1, dot - 1)
        fh   == IF dot = 0 THEN 0 ELSE FracHalves(DigitVal(t[dot + 1]))
        h    == RoundNat(2 * NatVal(ip) + fh)
    IN  IF h > MaxFloat64 THEN [err |-> ErrorOf("strconv.ErrRange"), f |-> PosInf]
        ELSE [err |-> Nil, f |-> Fin(IF neg THEN 0 - h ELSE h)]

\* strconv's shortest decimal form of a finite float64
FloatText(f) ==
    LET a == Abs(f.h)
        t == NatText(a \div 2) \o (IF a % 2 = 1 THEN <<".", "5">> ELSE <<>>)
    IN  IF f.h < 0 THEN <<"-">> \o t ELSE t

\* a conversion that rounds to the nearest integer instead of truncating
FloatToIntNearest(f, a) ==
    LET t == IF f.h < 0 THEN 0 - ((1 - f.h) \div 2) ELSE (f.h + 1) \div 2
    IN  IF f.c = "fin" /\ t >= MinInt64 /\ t <= MaxInt64 THEN t
        ELSE IF a = "amd64" THEN MinInt64
        ELSE IF f.c = "nan" THEN 0
        ELSE IF f.h < 0 THEN MinInt64 ELSE MaxInt64

\* a float64 to integer conversion: truncation toward zero; out of range the
\* result is implementation-dependent (amd64 gives the minimum, arm64 saturates)
FloatToInt(f, a) ==
    LET t == IF f.h < 0 THEN 0 - ((0 - f.h) \div 2) ELSE f.h \div 2
    IN  IF f.c = "fin" /\ t >= MinInt64 /\ t <= MaxInt64 THEN t
        ELSE IF a = "amd64" THEN MinInt64
        ELSE IF f.c = "nan" THEN 0
        ELSE IF f.h < 0 THEN MinInt64 ELSE MaxInt64

(***************************************************************************)
(* encoding/json on an interface{} target.  A decoded value carries its    *)
(* dynamic Go type t (what %T prints) and its value v.                     *)
(***************************************************************************)
Dyn(t, v) == [t |-> t, v |-> v]
Untyped == Dyn("nil", 0)

NullLit == <<"n", "u", "l", "l">>
TrueLit == <<"t", "r", "u", "e">>
FalseLit == <<"f", "a", "l", "s", "e">>

\* the JSON number grammar, without exponents: -? (0 | [1-9][0-9]*) (. [0-9]+)?
IsNumber(s) ==
    LET t   == IF s # <<>> /\ s[1] = "-" THEN Tail(s) ELSE s
        dot == IndexOf(t, ".")
        ip  == IF dot = 0 THEN t ELSE SubSeq(t, 1, dot - 1)
        fp  == IF dot = 0 THEN <<>> ELSE SubSeq(t, dot + 1, Len(t))
    IN  /\ ip # <<>>
        /\ AllDigits(ip)
        /\ (Len(ip) > 1 => ip[1] # "0")
        /\ (dot # 0 => fp # <<>> /\ AllDigits(fp))

\* the body of a JSON string literal, unescaped; ok is FALSE on a bare quote
\* or an escape other than \" \\ \/
RECURSIVE Unescape(_)
Unescape(s) ==
    IF s = <<>> THEN [ok |-> TRUE, v |-> <<>>]
    ELSE IF s[1] = "\"" THEN [ok |-> FALSE, v |-> <<>>]
    ELSE IF s[1] = "\\"
         THEN IF Len(s) >= 2 /\ s[2] \in {"\"", "\\", "/"}
              THEN LET r == Unescape(SubSeq(s, 3, Len(s)))
                   IN  [ok |-> r.ok, v |-> <<s[2]>> \o r.v]
              ELSE [ok |-> FALSE, v |-> <<>>]
    ELSE LET r == Unescape(Tail(s))
         IN  [ok |-> r.ok, v |-> <<s[1]>> \o r.v]

IsString(s) == /\ Len(s) >= 2
               /\ s[1] = "\""
               /\ s[Len(s)] = "\""
               /\ Unescape(SubSeq(s, 2, Len(s) - 1)).ok

IsScalar(s) == s \in {NullLit, TrueLit, FalseLit} \/ IsNumber(s) \/ IsString(s)

\* an array of at most one scalar element
IsArray(s) == /\ Len(s) >= 2
              /\ s[1] = "["
              /\ s[Len(s)] = "]"
              /\ (Len(s) = 2 \/ IsScalar(SubSeq(s, 2, Len(s) - 1)))

IsObject(s) == s = <<"{", "}">>

\* json.Unmarshal(data, &v) with v an empty interface{}
Unmarshal(data) ==
    IF data = NullLit THEN [err |-> Nil, v |-> Untyped]
    ELSE IF data = TrueLit THEN [err |-> Nil, v |-> Dyn("bool", TRUE)]
    ELSE IF data = FalseLit THEN [err |-> Nil, v |-> Dyn("bool", FALSE)]
    ELSE IF IsNumber(data)
         THEN LET r == ParseFloat(data)
              IN  IF r.err # Nil
                  THEN [err |-> ErrorOf("json.UnmarshalTypeError"), v |-> Untyped]
                  ELSE [err |-> Nil, v |-> Dyn("float64", r.f)]
    ELSE IF IsString(data)
         THEN [err |-> Nil,
               v |-> Dyn("string", Unescape(SubSeq(data, 2, Len(data) - 1)).v)]
    ELSE IF IsArray(data) THEN [err |-> Nil, v |-> Dyn("[]interface {}", 0)]
    ELSE IF IsObject(data) THEN [err |-> Nil, v |-> Dyn("map[string]interface {}", 0)]
    ELSE [err |-> ErrorOf("json.SyntaxError"), v |-> Untyped]

RECURSIVE Escape(_)
Escape(s) == IF s = <<>> THEN <<>>
             ELSE (IF s[1] \in {"\"", "\\"} THEN <<"\\", s[1]>> ELSE <<s[1]>>)
                  \o Escape(Tail(s))

Quote(s) == <<"\"">> \o Escape(s) \o <<"\"">>

MarshalNil == [ret |-> NullLit, err |-> Nil]
MarshalBool(b) == [ret |-> IF b THEN TrueLit ELSE FalseLit, err |-> Nil]
MarshalInt(n) == [ret |-> IntText(n), err |-> Nil]
\* json.Marshal refuses NaN and the infinities
MarshalFloat(f) == IF f.c = "fin" THEN [ret |-> FloatText(f), err |-> Nil]
                   ELSE [ret |-> <<>>, err |-> ErrorOf("json.UnsupportedValueError")]
MarshalString(s) == [ret |-> Quote(s), err |-> Nil]

(***************************************************************************)
(* time.Time: an instant in whole seconds since 0001-01-01T00:00:00Z and   *)
(* a zone (UTC, or a fixed offset in minutes east).  The calendar covers   *)
(* the years before the first leap year.                                   *)
(***************************************************************************)
Instant(sec, off, utc) == [sec |-> sec, off |-> off, utc |-> utc]

\* var zt time.Time
zt == Instant(0, 0, TRUE)

\* time.Time.IsZero: the instant alone, whatever the zone
IsZero(t) == t.sec = 0

DaysBefore == <<0, 31, 59, 90, 120, 151, 181, 212, 243, 273, 304, 334, 365>>

ZoneText(off) ==
    IF off = 0 THEN <<"Z">>
    ELSE <<IF off < 0 THEN "-" ELSE "+">>
         \o Pad(Abs(off) \div 60, 2) \o <<":">> \o Pad(Abs(off) % 60, 2)

\* time.Time.Format(time.RFC3339)
FormatRFC3339(t) ==
    LET wall == t.sec + 60 * t.off
        day  == wall \div 86400
        sod  == wall % 86400
        doy  == day % 365
        mon  == CHOOSE m \in 1..12 : DaysBefore[m] <= doy /\ doy < DaysBefore[m + 1]
    IN  Pad(1 + day \div 365, 4) \o <<"-">> \o Pad(mon, 2) \o <<"-">>
        \o Pad(doy - DaysBefore[mon] + 1, 2) \o <<"T">>
        \o Pad(sod \div 3600, 2) \o <<":">> \o Pad((sod % 3600) \div 60, 2)
        \o <<":">> \o Pad(sod % 60, 2) \o ZoneText(t.off)

Num(s, from, to) == NatVal(SubSeq(s, from, to))

\* the layout "2006-01-02T15:04:05Z07:00" matched against s
WellFormed(s) ==
    /\ Len(s) \in {20, 25}
    /\ \A k \in {1, 2, 3, 4, 6, 7, 9, 10, 12, 13, 15, 16, 18, 19} : IsDigit(s[k])
    /\ s[5] = "-" /\ s[8] = "-" /\ s[11] = "T" /\ s[14] = ":" /\ s[17] = ":"
    /\ IF Len(s) = 20 THEN s[20] = "Z"
       ELSE /\ s[20] \in {"+", "-"}
            /\ \A k \in {21, 22, 24, 25} : IsDigit(s[k])
            /\ s[23] = ":"

InRange(s) ==
    /\ Num(s, 6, 7) \in 1..12
    /\ Num(s, 9, 10) >= 1
    /\ Num(s, 9, 10) <= DaysBefore[Num(s, 6, 7) + 1] - DaysBefore[Num(s, 6, 7)]
    /\ Num(s, 12, 13) < 24 /\ Num(s, 15, 16) < 60 /\ Num(s, 18, 19) < 60
    /\ (Len(s) = 25 => Num(s, 21, 22) < 24 /\ Num(s, 24, 25) < 60)

\* time.Parse(time.RFC3339, s)
ParseRFC3339(s) ==
    IF ~(WellFormed(s) /\ InRange(s)) THEN [err |-> ErrorOf("time.ParseError"), t |-> zt]
    ELSE LET days == (Num(s, 1, 4) - 1) * 365 + DaysBefore[Num(s, 6, 7)] + Num(s, 9, 10) - 1
             wall == days * 86400 + Num(s, 12, 13) * 3600 + Num(s, 15, 16) * 60 + Num(s, 18, 19)
             mag  == IF Len(s) = 20 THEN 0 ELSE Num(s, 21, 22) * 60 + Num(s, 24, 25)
             off  == IF Len(s) = 25 /\ s[20] = "-" THEN 0 - mag ELSE mag
         IN  [err |-> Nil, t |-> Instant(wall - 60 * off, off, Len(s) = 20)]

\* json.Marshal(time.Time): the quoted RFC 3339 form
MarshalTime(t) == [ret |-> <<"\"">> \o FormatRFC3339(t) \o <<"\"">>, err |-> Nil]

\* n as w big-endian bytes (two's complement for a negative 16-bit n)
RECURSIVE BigEndian(_, _)
BigEndian(n, w) == IF w = 0 THEN <<>>
                   ELSE BigEndian(n \div 256, w - 1) \o <<n % 256>>

RECURSIVE BigEndianVal(_)
BigEndianVal(s) == IF s = <<>> THEN 0
                   ELSE 256 * BigEndianVal(SubSeq(s, 1, Len(s) - 1)) + s[Len(s)]

\* time.Time.MarshalBinary, version 1: version, 8 bytes of seconds, 4 of
\* nanoseconds, 2 of zone offset in minutes with -1 standing for UTC
MarshalBinary(t) ==
    LET offsetMin == IF t.utc THEN 0 - 1 ELSE t.off
    IN  [ret |-> <<1>> \o BigEndian(t.sec, 8) \o BigEndian(0, 4)
                 \o BigEndian(IF offsetMin < 0 THEN offsetMin + 65536 ELSE offsetMin, 2),
         err |-> Nil]

\* time.Time.UnmarshalBinary
UnmarshalBinary(data) ==
    IF Len(data) = 0 THEN [err |-> ErrorOf("time: no data"), t |-> zt]
    ELSE IF data[1] # 1 THEN [err |-> ErrorOf("time: unsupported version"), t |-> zt]
    ELSE IF Len(data) # 15 THEN [err |-> ErrorOf("time: invalid length"), t |-> zt]
    ELSE LET u   == BigEndianVal(SubSeq(data, 14, 15))
             off == IF u >= 32768 THEN u - 65536 ELSE u
         IN  [err |-> Nil,
              t   |-> IF off = 0 - 1 THEN Instant(BigEndianVal(SubSeq(data, 2, 9)), 0, TRUE)
                      ELSE Instant(BigEndianVal(SubSeq(data, 2, 9)), off, FALSE)]

(***************************************************************************)
(* The methods, as functions of the receiver and the argument.  A decode   *)
(* returns the receiver after the call (self) and the error; an encode     *)
(* returns the result (ret) and the error.                                 *)
(*                                                                         *)
(* In every UnmarshalJSON the failed assertion `v, ok := v.(T)' declares   *)
(* a new v of type T that is still in scope in the else branch, so the     *)
(* %T of the error prints T.                                               *)
(***************************************************************************)
Stored(x) == [self |-> x, err |-> Nil]
Failed(x, e) == [self |-> x, err |-> e]
Returned(x) == [ret |-> x, err |-> Nil]

Bool_Scan(b, v) ==
    IF v.t = "nil" THEN Stored(FALSE)
    ELSE IF v.t = "bool" THEN Stored(v.v)
    ELSE Failed(b, Errorf("scanning", "*nnz.Bool", v.t))

Bool_Value(b) == IF b = FALSE THEN Returned(Untyped) ELSE Returned(Dyn("bool", b))

Bool_MarshalJSON(b) == IF b = FALSE THEN MarshalNil ELSE MarshalBool(b)

Bool_UnmarshalJSON(b, data) ==
    LET r == Unmarshal(data)
    IN  IF r.err # Nil THEN Failed(b, r.err)
        ELSE IF r.v.t = "nil" THEN Stored(FALSE)
        ELSE IF r.v.t = "bool" THEN Stored(r.v.v)
        ELSE Failed(b, Errorf("unmarshaling", "*nnz.Bool", "bool"))

Int_Scan(i, v) ==
    IF v.t = "nil" THEN Stored(0)
    ELSE IF v.t = "int64" THEN Stored(v.v)
    ELSE Failed(i, Errorf("scanning", "*nnz.Int", v.t))

\* a Value that hands out the zero as a value
IntValueOfZero(i) == Returned(Dyn("int64", i))

Int_Value(i) == IF i = 0 THEN Returned(Untyped) ELSE Returned(Dyn("int64", i))

Int_MarshalJSON(i) == IF i = 0 THEN MarshalNil ELSE MarshalInt(i)

\* an UnmarshalJSON that clears the wrapper before it looks at the input
IntUnmarshalJSONClearing(i, data, a) ==
    LET r == Unmarshal(data)
    IN  IF r.err # Nil THEN Failed(0, r.err)
        ELSE IF r.v.t = "nil" THEN Stored(0)
        ELSE IF r.v.t = "float64" THEN Stored(FloatToInt(r.v.v, a))
        ELSE Failed(0, Errorf("unmarshaling", "*nnz.Int", "float64"))

Int_UnmarshalJSON(i, data, a) ==
    LET r == Unmarshal(data)
    IN  IF r.err # Nil THEN Failed(i, r.err)
        ELSE IF r.v.t = "nil" THEN Stored(0)
        ELSE IF r.v.t = "float64" THEN Stored(FloatToInt(r.v.v, a))
        ELSE Failed(i, Errorf("unmarshaling", "*nnz.Int", "float64"))

Int64_Scan(i, v) ==
    IF v.t = "nil" THEN Stored(0)
    ELSE IF v.t = "int64" THEN Stored(v.v)
    ELSE Failed(i, Errorf("scanning", "*nnz.Int64", v.t))

Int64_Value(i) == IF i = 0 THEN Returned(Untyped) ELSE Returned(Dyn("int64", i))

Int64_MarshalJSON(i) == IF i = 0 THEN MarshalNil ELSE MarshalInt(i)

Int64_UnmarshalJSON(i, data, a) ==
    LET r == Unmarshal(data)
    IN  IF r.err # Nil THEN Failed(i, r.err)
        ELSE IF r.v.t = "nil" THEN Stored(0)
        ELSE IF r.v.t = "float64" THEN Stored(FloatToInt(r.v.v, a))
        ELSE Failed(i, Errorf("unmarshaling", "*nnz.Int64", "float64"))

Float64_Scan(f, v) ==
    IF v.t = "nil" THEN Stored(Fin(0))
    ELSE IF v.t = "float64" THEN Stored(v.v)
    ELSE Failed(f, Errorf("scanning", "*nnz.Float64", v.t))

Float64_Value(f) == IF f = Fin(0) THEN Returned(Untyped) ELSE Returned(Dyn("float64", f))

Float64_MarshalJSON(f) == IF f = Fin(0) THEN MarshalNil ELSE MarshalFloat(f)

Float64_UnmarshalJSON(f, data) ==
    LET r == Unmarshal(data)
    IN  IF r.err # Nil THEN Failed(f, r.err)
        ELSE IF r.v.t = "nil" THEN Stored(Fin(0))
        ELSE IF r.v.t = "float64" THEN Stored(r.v.v)
        ELSE Failed(f, Errorf("unmarshaling", "*nnz.Float64", "float64"))

String_Scan(s, v) ==
    IF v.t = "nil" THEN Stored(<<>>)
    ELSE IF v.t = "[]uint8" THEN Stored(v.v)
    ELSE IF v.t = "string" THEN Stored(v.v)
    ELSE Failed(s, Errorf("scanning", "*nnz.String", v.t))

String_Value(s) == IF s = <<>> THEN Returned(Untyped) ELSE Returned(Dyn("string", s))

String_MarshalJSON(s) == IF s = <<>> THEN MarshalNil ELSE MarshalString(s)

String_UnmarshalJSON(s, data) ==
    LET r == Unmarshal(data)
    IN  IF r.err # Nil THEN Failed(s, r.err)
        ELSE IF r.v.t = "nil" THEN Stored(<<>>)
        ELSE IF r.v.t = "string" THEN Stored(r.v.v)
        ELSE Failed(s, Errorf("unmarshaling", "*nnz.String", "string"))

\* a Scan that stores the instant in UTC
TimeScanInUTC(t, v) ==
    IF v.t = "nil" THEN Stored(zt)
    ELSE IF v.t = "time.Time" THEN Stored(Instant(v.v.sec, 0, TRUE))
    ELSE Failed(t, Errorf("scanning", "*nnz.Time", v.t))

Time_Scan(t, v) ==
    IF v.t = "nil" THEN Stored(zt)
    ELSE IF v.t = "time.Time" THEN Stored(v.v)
    ELSE Failed(t, Errorf("scanning", "*nnz.Time", v.t))

Time_Value(t) == IF IsZero(t) THEN Returned(Untyped) ELSE Returned(Dyn("time.Time", t))

Time_MarshalJSON(t) == IF IsZero(t) THEN MarshalNil ELSE MarshalTime(t)

\* json.Unmarshal never yields a time.Time, so the assertion never holds
Time_UnmarshalJSON(t, data) ==
    LET r == Unmarshal(data)
    IN  IF r.err # Nil THEN Failed(t, r.err)
        ELSE IF r.v.t = "nil" THEN Stored(zt)
        ELSE IF r.v.t = "time.Time" THEN Stored(r.v.v)
        ELSE Failed(t, Errorf("unmarshaling", "*nnz.Time", "time.Time"))

\* an UnmarshalText that hands the empty text to the parser
TimeUnmarshalTextParsingEmpty(t, data) ==
    LET r == ParseRFC3339(data)
    IN  IF r.err # Nil THEN Failed(t, r.err) ELSE Stored(r.t)

Time_UnmarshalText(t, data) ==
    IF data = <<>> THEN Stored(zt)
    ELSE LET r == ParseRFC3339(data)
         IN  IF r.err # Nil THEN Failed(t, r.err) ELSE Stored(r.t)

\* a GobEncode that encodes the zero timestamp as no bytes, as the other paths
\* encode it as null
TimeGobEncodeNull(t) == IF IsZero(t) THEN Returned(<<>>) ELSE MarshalBinary(t)

Time_GobEncode(t) == MarshalBinary(t)

Time_GobDecode(t, data) ==
    LET r == UnmarshalBinary(data)
    IN  IF r.err # Nil THEN Failed(t, r.err) ELSE Stored(r.t)

(***************************************************************************)
(* The values a wrapper is constructed from and the inputs a database      *)
(* driver or a codec hands to it.                                          *)
(***************************************************************************)
Kinds == {"Bool", "Int", "Int64", "Float64", "String", "Time"}
Archs == {"amd64", "arm64"}

BoolVals == BOOLEAN
\* Pow2(FloatMantBits) + 1 is the first integer no float64 holds
IntVals == {MinInt64, 0 - 3, 0, 1, 7, Pow2(FloatMantBits) + 1, MaxInt64}
\* 2 * (MaxInt64 + 1) halves is the first float64 above every int64
FloatVals == {Fin(0), Fin(1), Fin(0 - 3), Fin(14), Fin(2 * (MaxInt64 + 1)), NaN, PosInf}
StringVals == {<<>>, <<"a">>, <<"a", "\"">>, <<"\\", "b">>}
TimeVals == {zt, Instant(0, 60, FALSE), Instant(140645, 0, TRUE),
             Instant(140645, 60, FALSE), Instant(140645, 0 - 300, FALSE)}

Vals(k) == CASE k = "Bool" -> BoolVals
             [] k = "Int" -> IntVals
             [] k = "Int64" -> IntVals
             [] k = "Float64" -> FloatVals
             [] k = "String" -> StringVals
             [] k = "Time" -> TimeVals

\* database/sql/driver.Value: nil, int64, float64, bool, []byte, string, time.Time
DriverValues ==
    {Untyped}
    \cup {Dyn("bool", b) : b \in BoolVals}
    \cup {Dyn("int64", n) : n \in IntVals}
    \cup {Dyn("float64", f) : f \in FloatVals}
    \cup {Dyn("string", s) : s \in StringVals}
    \cup {Dyn("[]uint8", s) : s \in StringVals}
    \cup {Dyn("time.Time", t) : t \in TimeVals}

\* numbers: integers, fractions, one above every int64, one above every float64
NumberTexts ==
    {IntText(n) : n \in IntVals \cup {MaxInt64 + 9, MaxFloat64}}
    \cup {<<"0", ".", "5">>, <<"-", "0", ".", "5">>, <<"1", ".", "5">>}

BadJSON == {<<>>, <<"n", "u", "l">>, <<"{">>, <<"1", ".">>, <<"0", "1">>, <<"\"", "a">>}

JSONTexts ==
    {NullLit, TrueLit, FalseLit}
    \cup NumberTexts
    \cup {Quote(s) : s \in StringVals}
    \cup {MarshalTime(t).ret : t \in TimeVals}
    \cup {<<"[", "]">>, <<"[", "1", "]">>, <<"{", "}">>}
    \cup BadJSON

\* a month 13, a missing zone, a lower-case separator
BadTexts == {<<"a">>,
             <<"0", "0", "0", "1", "-", "1", "3", "-", "0", "1", "T",
               "0", "0", ":", "0", "0", ":", "0", "0", "Z">>,
             SubSeq(FormatRFC3339(zt), 1, 19),
             [FormatRFC3339(zt) EXCEPT ![11] = "t"]}

Texts == {<<>>} \cup {FormatRFC3339(t) : t \in TimeVals} \cup BadTexts

\* no data, another version, a short buffer
BadBinary == {<<>>, <<2>> \o Tail(MarshalBinary(zt).ret),
              SubSeq(MarshalBinary(zt).ret, 1, 14), <<1>>}

Binaries == {MarshalBinary(t).ret : t \in TimeVals} \cup BadBinary

(***************************************************************************)
(* The state machine: one action per method.  `last' records the last      *)
(* call (its argument, the value before it, what it returned), `stored'    *)
(* the value the last successful decode stored.                            *)
(***************************************************************************)
Call(op, arg, pre, ret, err) ==
    [op |-> op, arg |-> arg, pre |-> pre, ret |-> ret, err |-> err]

Init == /\ kind \in Kinds
        /\ val \in Vals(kind)
        /\ arch \in Archs
        /\ last = Call("new", <<>>, val, <<>>, Nil)
        /\ stored = val

\* a pointer-receiver method: the wrapper becomes r.self
Decode(op, arg, r) ==
    /\ val' = r.self
    /\ last' = Call(op, arg, val, <<>>, r.err)
    /\ stored' = IF r.err = Nil THEN r.self ELSE stored
    /\ UNCHANGED <<kind, arch>>

\* a value-receiver method: it works on a copy
Encode(op, r) ==
    /\ last' = Call(op, <<>>, val, r.ret, r.err)
    /\ UNCHANGED <<kind, val, arch, stored>>

BoolScan == kind = "Bool" /\ \E v \in DriverValues : Decode("Scan", v, Bool_Scan(val, v))
BoolValue == kind = "Bool" /\ Encode("Value", Bool_Value(val))
BoolMarshalJSON == kind = "Bool" /\ Encode("MarshalJSON", Bool_MarshalJSON(val))
BoolUnmarshalJSON ==
    kind = "Bool" /\ \E d \in JSONTexts : Decode("UnmarshalJSON", d, Bool_UnmarshalJSON(val, d))

IntScan == kind = "Int" /\ \E v \in DriverValues : Decode("Scan", v, Int_Scan(val, v))
IntValue == kind = "Int" /\ Encode("Value", Int_Value(val))
IntMarshalJSON == kind = "Int" /\ Encode("MarshalJSON", Int_MarshalJSON(val))
IntUnmarshalJSON ==
    kind = "Int" /\ \E d \in JSONTexts :
        Decode("UnmarshalJSON", d, Int_UnmarshalJSON(val, d, arch))

Int64Scan == kind = "Int64" /\ \E v \in DriverValues : Decode("Scan", v, Int64_Scan(val, v))
Int64Value == kind = "Int64" /\ Encode("Value", Int64_Value(val))
Int64MarshalJSON == kind = "Int64" /\ Encode("MarshalJSON", Int64_MarshalJSON(val))
Int64UnmarshalJSON ==
    kind = "Int64" /\ \E d \in JSONTexts :
        Decode("UnmarshalJSON", d, Int64_UnmarshalJSON(val, d, arch))

Float64Scan ==
    kind = "Float64" /\ \E v \in DriverValues : Decode("Scan", v, Float64_Scan(val, v))
Float64Value == kind = "Float64" /\ Encode("Value", Float64_Value(val))
Float64MarshalJSON == kind = "Float64" /\ Encode("MarshalJSON", Float64_MarshalJSON(val))
Float64UnmarshalJSON ==
    kind = "Float64" /\ \E d \in JSONTexts :
        Decode("UnmarshalJSON", d, Float64_UnmarshalJSON(val, d))

StringScan ==
    kind = "String" /\ \E v \in DriverValues : Decode("Scan", v, String_Scan(val, v))
StringValue == kind = "String" /\ Encode("Value", String_Value(val))
StringMarshalJSON == kind = "String" /\ Encode("MarshalJSON", String_MarshalJSON(val))
StringUnmarshalJSON ==
    kind = "String" /\ \E d \in JSONTexts :
        Decode("UnmarshalJSON", d, String_UnmarshalJSON(val, d))

TimeScan == kind = "Time" /\ \E v \in DriverValues : Decode("Scan", v, Time_Scan(val, v))
\* a Value on a pointer receiver that resets a zero instant to zt
TimeValueResetting ==
    /\ kind = "Time"
    /\ val' = IF IsZero(val) THEN zt ELSE val
    /\ last' = Call("Value", <<>>, val, Time_Value(val).ret, Nil)
    /\ UNCHANGED <<kind, arch, stored>>

TimeValue == kind = "Time" /\ Encode("Value", Time_Value(val))
TimeMarshalJSON == kind = "Time" /\ Encode("MarshalJSON", Time_MarshalJSON(val))
TimeUnmarshalJSON ==
    kind = "Time" /\ \E d \in JSONTexts : Decode("UnmarshalJSON", d, Time_UnmarshalJSON(val, d))
TimeUnmarshalText ==
    kind = "Time" /\ \E d \in Texts : Decode("UnmarshalText", d, Time_UnmarshalText(val, d))
TimeGobEncode == kind = "Time" /\ Encode("GobEncode", Time_GobEncode(val))
TimeGobDecode ==
    kind = "Time" /\ \E d \in Binaries : Decode("GobDecode", d, Time_GobDecode(val, d))

Next == \/ BoolScan \/ BoolValue \/ BoolMarshalJSON \/ BoolUnmarshalJSON
        \/ IntScan \/ IntValue \/ IntMarshalJSON \/ IntUnmarshalJSON
        \/ Int64Scan \/ Int64Value \/ Int64MarshalJSON \/ Int64UnmarshalJSON
        \/ Float64Scan \/ Float64Value \/ Float64MarshalJSON \/ Float64UnmarshalJSON
        \/ StringScan \/ StringValue \/ StringMarshalJSON \/ StringUnmarshalJSON
        \/ TimeScan \/ TimeValue \/ TimeMarshalJSON \/ TimeUnmarshalJSON
        \/ TimeUnmarshalText \/ TimeGobEncode \/ TimeGobDecode

Spec == Init /\ [][Next]_vars

(***************************************************************************)
(* What the contract speaks of: the zero value of each primitive, the      *)
(* accepted input types, the encodings of a primitive.                     *)
(***************************************************************************)
DecodeOps == {"Scan", "UnmarshalJSON", "UnmarshalText", "GobDecode"}
EncodeOps == {"Value", "MarshalJSON", "GobEncode"}
IntKinds == {"Int", "Int64"}

ZeroValue(k) == CASE k = "Bool" -> FALSE
                  [] k \in IntKinds -> 0
                  [] k = "Float64" -> Fin(0)
                  [] k = "String" -> <<>>
                  [] k = "Time" -> zt

\* the zero timestamp is the instant, in whatever zone it is held
IsZeroValue(k, v) == IF k = "Time" THEN v.sec = 0 ELSE v = ZeroValue(k)

NonZero(k) == {v \in Vals(k) : ~IsZeroValue(k, v)}

WrapperType(k) == CASE k = "Bool" -> "*nnz.Bool"
                    [] k = "Int" -> "*nnz.Int"
                    [] k = "Int64" -> "*nnz.Int64"
                    [] k = "Float64" -> "*nnz.Float64"
                    [] k = "String" -> "*nnz.String"
                    [] k = "Time" -> "*nnz.Time"

\* the driver type Value() hands out and the driver types Scan accepts
DriverType(k) == CASE k = "Bool" -> "bool"
                   [] k \in IntKinds -> "int64"
                   [] k = "Float64" -> "float64"
                   [] k = "String" -> "string"
                   [] k = "Time" -> "time.Time"

AcceptedDriverTypes(k) == IF k = "String" THEN {"string", "[]uint8"} ELSE {DriverType(k)}

\* the Go type of the JSON kind the table accepts for each wrapper
AcceptedJSONType(k) == CASE k = "Bool" -> "bool"
                         [] k \in IntKinds -> "float64"
                         [] k = "Float64" -> "float64"
                         [] k = "String" -> "string"
                         [] k = "Time" -> "string"

\* the Go type of the kind of a valid, non-null JSON text
JSONType(d) == IF d \in {TrueLit, FalseLit} THEN "bool"
               ELSE IF IsNumber(d) THEN "float64"
               ELSE IF IsString(d) THEN "string"
               ELSE IF IsArray(d) THEN "[]interface {}"
               ELSE "map[string]interface {}"

ValidJSON(d) == d = NullLit \/ IsScalar(d) \/ IsArray(d) \/ IsObject(d)

ValueOf(k, v) == CASE k = "Bool" -> Bool_Value(v)
                   [] k = "Int" -> Int_Value(v)
                   [] k = "Int64" -> Int64_Value(v)
                   [] k = "Float64" -> Float64_Value(v)
                   [] k = "String" -> String_Value(v)
                   [] k = "Time" -> Time_Value(v)

MarshalJSONOf(k, v) == CASE k = "Bool" -> Bool_MarshalJSON(v)
                         [] k = "Int" -> Int_MarshalJSON(v)
                         [] k = "Int64" -> Int64_MarshalJSON(v)
                         [] k = "Float64" -> Float64_MarshalJSON(v)
                         [] k = "String" -> String_MarshalJSON(v)
                         [] k = "Time" -> Time_MarshalJSON(v)

\* json.Marshal of the primitive a wrapper holds
MarshalPrimitive(k, v) == CASE k = "Bool" -> MarshalBool(v)
                            [] k \in IntKinds -> MarshalInt(v)
                            [] k = "Float64" -> MarshalFloat(v)
                            [] k = "String" -> MarshalString(v)
                            [] k = "Time" -> MarshalTime(v)

\* the JSON text of a primitive
PrimitiveText(k, v) == CASE k = "Bool" -> (IF v THEN TrueLit ELSE FalseLit)
                         [] k \in IntKinds -> IntText(v)
                         [] k = "Float64" -> FloatText(v)
                         [] k = "String" -> Quote(v)
                         [] k = "Time" -> <<"\"">> \o FormatRFC3339(v) \o <<"\"">>

SameDyn(a, b) == a.t = b.t /\ a.v = b.v

\* the value of a JSON number in halves, and a count of halves truncated
DecimalHalves(d) ==
    LET t   == IF d[1] = "-" THEN Tail(d) ELSE d
        dot == IndexOf(t, ".")
        h   == IF dot = 0 THEN 2 * NatVal(t)
               ELSE 2 * NatVal(SubSeq(t, 1, dot - 1)) + FracHalves(DigitVal(t[dot + 1]))
    IN  IF d[1] = "-" THEN 0 - h ELSE h

Trunc(h) == IF h < 0 THEN 0 - ((0 - h) \div 2) ELSE h \div 2

(***************************************************************************)
(* The claims.                                                             *)
(***************************************************************************)

\* C1: JSON round trip.  For every wrapper and every non-zero value v,
\* UnmarshalJSON of the bytes MarshalJSON returns for v succeeds and leaves
\* the wrapper equal to v, whatever it held before.
C1_JSONRoundTrip ==
    last.op = "UnmarshalJSON" =>
        \A v \in NonZero(kind) :
            last.arg = MarshalJSONOf(kind, v).ret => last.err = Nil /\ val = v

\* C2: database round trip.  For every wrapper and every non-zero value v,
\* Scan of what Value() returns for v succeeds and leaves the wrapper equal
\* to v, whatever it held before.
C2_DatabaseRoundTrip ==
    last.op = "Scan" =>
        \A v \in NonZero(kind) :
            SameDyn(last.arg, ValueOf(kind, v).ret) => last.err = Nil /\ val = v

\* C2 witness: a Time wrapper was scanned from the Value() of another,
\* non-zero timestamp and now holds it.
C2_Witness ==
    /\ kind = "Time"
    /\ last.op = "Scan"
    /\ \E v \in NonZero("Time") : SameDyn(last.arg, Time_Value(v).ret) /\ val = v
    /\ last.pre # val

\* the decodes of null: Scan(nil) and UnmarshalJSON("null") store the zero value
NullDecodes ==
    /\ last.op = "Scan" /\ last.arg.t = "nil" => last.err = Nil /\ val = ZeroValue(kind)
    /\ last.op = "UnmarshalJSON" /\ last.arg = NullLit => last.err = Nil /\ val = ZeroValue(kind)

\* Value() is null exactly on the zero value and the primitive itself otherwise
ValueNullIffZero ==
    last.op = "Value" =>
        /\ last.err = Nil
        /\ last.ret.t = "nil" <=> IsZeroValue(kind, val)
        /\ ~IsZeroValue(kind, val) => SameDyn(last.ret, Dyn(DriverType(kind), val))

\* C3, as claimed: zero is the one and only null.  Scan(nil) and
\* UnmarshalJSON("null") succeed and store the zero value; Value() returns
\* nil and MarshalJSON returns null if and only if the value is zero, and
\* otherwise they return the primitive value itself.
C3_AsClaimed ==
    /\ NullDecodes
    /\ ValueNullIffZero
    /\ last.op = "MarshalJSON" =>
           /\ last.ret = NullLit <=> IsZeroValue(kind, val)
           /\ ~IsZeroValue(kind, val) =>
                  last.err = Nil /\ last.ret = PrimitiveText(kind, val)

\* C3, amended: as claimed, except that for a non-zero value MarshalJSON
\* returns what json.Marshal returns for the primitive: its JSON text, or
\* json.Marshal's error when the primitive has none (a NaN or infinite
\* Float64).
C3_ZeroIsNull ==
    /\ NullDecodes
    /\ ValueNullIffZero
    /\ last.op = "MarshalJSON" =>
           /\ last.ret = NullLit <=> IsZeroValue(kind, val)
           /\ ~IsZeroValue(kind, val) =>
                  /\ last.err = MarshalPrimitive(kind, val).err
                  /\ last.ret = MarshalPrimitive(kind, val).ret
                  /\ last.err = Nil => last.ret = PrimitiveText(kind, val)
                  /\ last.err # Nil <=> kind = "Float64" /\ val.c # "fin"

\* C3 witness: a Time wrapper holding the zero instant in a zone other than
\* UTC has encoded as JSON null.
C3_Witness ==
    /\ kind = "Time"
    /\ last.op = "MarshalJSON"
    /\ val = Instant(0, 60, FALSE)
    /\ last.ret = NullLit

\* C4: Time.UnmarshalJSON accepts a JSON string: given a string literal
\* holding a valid timestamp it returns no error and stores that non-zero
\* timestamp.
C4_TimeAcceptsString ==
    kind = "Time" /\ last.op = "UnmarshalJSON" =>
        \A t \in NonZero("Time") :
            last.arg = MarshalTime(t).ret => last.err = Nil /\ val = t

\* C5: type mismatch.  Scan of a non-nil value of a type outside the
\* accepted set, and UnmarshalJSON of valid non-null JSON of another kind,
\* return an error naming the wrapper's type and the observed type; every
\* input of an accepted type or kind returns no error.
C5_TypeMismatch ==
    /\ last.op = "Scan" /\ last.arg.t # "nil" =>
           IF last.arg.t \in AcceptedDriverTypes(kind)
           THEN last.err = Nil
           ELSE last.err = Errorf("scanning", WrapperType(kind), last.arg.t)
    /\ last.op = "UnmarshalJSON" /\ ValidJSON(last.arg) /\ last.arg # NullLit =>
           IF JSONType(last.arg) = AcceptedJSONType(kind)
           THEN last.err = Nil
           ELSE last.err = Errorf("unmarshaling", WrapperType(kind), JSONType(last.arg))

\* C6: a failed decode leaves the wrapper unchanged (type mismatch, invalid
\* JSON, invalid RFC 3339 text, invalid binary data), so the wrapper always
\* equals what the last successful decode stored, or its initial value.
C6_FailedDecodeUnchanged ==
    /\ last.op \in DecodeOps /\ last.err # Nil => val = last.pre
    /\ val = stored

\* C6 witness: a Time wrapper holding a non-zero timestamp has refused
\* invalid binary data.
C6_Witness ==
    /\ kind = "Time"
    /\ last.op = "GobDecode"
    /\ last.arg \in BadBinary
    /\ last.err # Nil
    /\ ~IsZero(val)

\* C7: Time.UnmarshalText stores the zero timestamp on empty text, stores
\* exactly the instant a valid RFC 3339 text denotes, and returns the
\* parser's error on any other text.
C7_UnmarshalText ==
    last.op = "UnmarshalText" =>
        /\ last.arg = <<>> => last.err = Nil /\ val = zt
        /\ \A t \in TimeVals :
               last.arg = FormatRFC3339(t) => last.err = Nil /\ val = t
        /\ last.arg \in BadTexts => last.err = ErrorOf("time.ParseError")

\* C7 witness: a wrapper holding a non-zero timestamp has decoded the empty
\* text.
C7_Witness ==
    /\ last.op = "UnmarshalText"
    /\ last.arg = <<>>
    /\ ~IsZero(last.pre)
    /\ val = zt

\* C8: the binary path has no null substitution.  GobEncode returns an
\* ordinary 15-byte encoding, of the zero timestamp too, and GobDecode of
\* the encoding of any timestamp t succeeds and yields t.
C8_BinaryRoundTrip ==
    /\ last.op = "GobEncode" =>
           last.err = Nil /\ Len(last.ret) = 15 /\ last.ret[1] = 1
    /\ last.op = "GobDecode" =>
           \A t \in TimeVals :
               last.arg = Time_GobEncode(t).ret => last.err = Nil /\ val = t

\* C8 witness: a wrapper holding a non-zero timestamp has decoded the
\* encoding of the zero timestamp.
C8_Witness ==
    /\ last.op = "GobDecode"
    /\ last.arg = Time_GobEncode(zt).ret
    /\ ~IsZero(last.pre)
    /\ last.err = Nil
    /\ val = zt

\* C9: the encodes are read-only.  A call of Value, MarshalJSON or GobEncode
\* leaves the wrapper unchanged, Value returns a nil error, and what Value
\* and MarshalJSON return afterwards is what they returned before the call.
C9_EncodeReadOnly ==
    [][last'.op \in EncodeOps =>
           /\ val' = val
           /\ last'.op = "Value" => last'.err = Nil
           /\ ValueOf(kind', val') = ValueOf(kind, val)
           /\ MarshalJSONOf(kind', val') = MarshalJSONOf(kind, val)]_vars

\* C9 witness: a Time wrapper holding the zero instant in a zone other than
\* UTC has been asked for its database value.
C9_Witness ==
    /\ kind = "Time"
    /\ last.op = "Value"
    /\ val = Instant(0, 60, FALSE)
    /\ last.ret.t = "nil"

\* C10, as claimed: UnmarshalJSON on Int or Int64 given any JSON number n
\* returns no error and stores n truncated toward zero.
C10_AsClaimed ==
    kind \in IntKinds /\ last.op = "UnmarshalJSON" /\ IsNumber(last.arg) =>
        last.err = Nil /\ val = Trunc(DecimalHalves(last.arg))

\* C10, amended: a JSON number beyond the float64 range is refused with
\* json's error and the wrapper is unchanged; any other number n returns no
\* error and, f being n rounded to the nearest float64, stores f truncated
\* toward zero when that is within the integer type (what is stored
\* otherwise depends on the platform).  So a number of magnitude below 1
\* is stored as 0 and encodes as null on both paths, and an integer k that
\* float64 holds exactly and the integer type contains is stored as k.
C10_IntegerNarrowing ==
    kind \in IntKinds /\ last.op = "UnmarshalJSON" /\ IsNumber(last.arg) =>
        LET n == DecimalHalves(last.arg)
            f == RoundHalves(n)
        IN  IF Abs(f) > MaxFloat64
            THEN last.err = ErrorOf("json.UnmarshalTypeError") /\ val = last.pre
            ELSE /\ last.err = Nil
                 /\ Trunc(f) \in MinInt64..MaxInt64 => val = Trunc(f)
                 /\ Abs(n) < 2 =>
                        /\ val = 0
                        /\ ValueOf(kind, val).ret.t = "nil"
                        /\ MarshalJSONOf(kind, val).ret = NullLit
                 /\ n % 2 = 0 /\ Representable(n) /\ Trunc(n) \in MinInt64..MaxInt64 =>
                        val = Trunc(n)

\* C10 witness: an Int64 wrapper holding a non-zero value has decoded 0.5
\* and holds 0.
C10_Witness ==
    /\ kind = "Int64"
    /\ last.op = "UnmarshalJSON"
    /\ last.arg = <<"0", ".", "5">>
    /\ last.pre # 0
    /\ val = 0

=============================================================================
